---------------------------- MODULE Spec2Model ----------------------------
(***************************************************************************)
(* Model of scripts/verify-obtainium.py: the Obtainium configuration       *)
(* validator.  One run of main() is a state machine: load obtainium.json,  *)
(* abort when nothing usable was loaded, run the five checks in order      *)
(* inside the per-check try/except, print the summary and exit.            *)
(*                                                                         *)
(* JSON values are records tagged with their Python type, so that Python   *)
(* truthiness, dict.get defaults, int() and the exceptions raised on a     *)
(* value of the wrong type are computed the way the interpreter computes   *)
(* them.  Strings the script inspects itself (URLs, pattern texts, the     *)
(* text given to int()) are sequences of one-character strings.  The       *)
(* verdicts of the regex engine (module re) for the pattern texts that     *)
(* occur are tabulated in re_table.                                        *)
(***************************************************************************)
EXTENDS Integers, Sequences, FiniteSets

VARIABLES file, config, pc, i, results, diag, out, exitStatus

vars == <<file, config, pc, i, results, diag, out, exitStatus>>

-----------------------------------------------------------------------------
(* Bounds of the model *)

\* matchGroupToUse ranges over -MaxMatchGroup .. MaxMatchGroup
MaxMatchGroup == 2

-----------------------------------------------------------------------------
(* JSON values as Python sees them *)

Absent == [t |-> "absent", s |-> <<>>, n |-> 0]
Null == [t |-> "null", s |-> <<>>, n |-> 0]
Str(chars) == [t |-> "str", s |-> chars, n |-> 0]
Num(k) == [t |-> "int", s |-> <<>>, n |-> k]
Bool(b) == [t |-> "bool", s |-> <<>>, n |-> IF b THEN 1 ELSE 0]

SettingsKeys == {"versionExtractionRegEx", "matchGroupToUse", "apkFilterRegEx", "includePrereleases"}

ConfigKeys == {"id", "url", "name", "description", "sourceUrl", "additionalSettings"}

\* a value of additionalSettings: a mapping (t = "map"), or a value of
\* another type, whose entries are then all Absent
Settings(t, ver, grp, apk, pre) ==
  [t |-> t, versionExtractionRegEx |-> ver, matchGroupToUse |-> grp,
   apkFilterRegEx |-> apk, includePrereleases |-> pre]

EmptyDict == Settings("map", Absent, Absent, Absent, Absent)

AbsentSettings == Settings("absent", Absent, Absent, Absent, Absent)

\* a parsed document: a mapping (t = "map"), or a value of another type
Doc(t, id, url, name, description, sourceUrl, additionalSettings) ==
  [t |-> t, id |-> id, url |-> url, name |-> name, description |-> description,
   sourceUrl |-> sourceUrl, additionalSettings |-> additionalSettings]

\* Python's None, as load_config returns it and as json.load gives for null
None == Doc("null", Absent, Absent, Absent, Absent, Absent, AbsentSettings)

\* bool(v): None, "", 0, False, {} are falsy; "list" is a non-empty list
Truthy(v) ==
  CASE v.t = "str" -> v.s # <<>>
    [] v.t = "int" -> v.n # 0
    [] v.t = "bool" -> v.n = 1
    [] v.t = "map" -> \E k \in DOMAIN v \ {"t"} : v[k].t # "absent"
    [] v.t = "list" -> TRUE
    [] OTHER -> FALSE

\* key in m, for a dict m; for the list modelled (of numbers) no key is in it
In(k, m) == m.t = "map" /\ m[k].t # "absent"

\* dict.get(k, default)
GetNoDefault(m, k, default) == m[k]

Get(m, k, default) == IF In(k, m) THEN m[k] ELSE default

\* s.startswith(prefix)
StartsWith(s, prefix) ==
  Len(s) >= Len(prefix) /\ SubSeq(s, 1, Len(prefix)) = prefix

\* sub in s, for strings
Contains(sub, s) ==
  \E j \in 1..(Len(s) - Len(sub) + 1) : SubSeq(s, j, j + Len(sub) - 1) = sub

Digits == <<"0", "1", "2", "3", "4", "5", "6", "7", "8", "9">>

DigitValue(c) == (CHOOSE d \in 1..10 : Digits[d] = c) - 1

IsDigit(c) == \E d \in 1..10 : Digits[d] = c

RECURSIVE ParseDigits(_, _)
ParseDigits(s, acc) ==
  IF s = <<>> THEN acc ELSE ParseDigits(Tail(s), 10 * acc + DigitValue(Head(s)))

\* the text int() accepts: an optional sign and at least one digit
IsIntLiteral(s) ==
  LET body == IF s # <<>> /\ Head(s) \in {"-", "+"} THEN Tail(s) ELSE s
  IN body # <<>> /\ \A j \in 1..Len(body) : IsDigit(body[j])

ParseInt(s) ==
  IF Head(s) = "-" THEN 0 - ParseDigits(Tail(s), 0)
  ELSE IF Head(s) = "+" THEN ParseDigits(Tail(s), 0)
  ELSE ParseDigits(s, 0)

\* int(v): the exception it raises, "" when it raises none
int_error(v) ==
  CASE v.t = "int" -> ""
    [] v.t = "bool" -> ""
    [] v.t = "str" -> IF IsIntLiteral(v.s) THEN "" ELSE "ValueError"
    [] OTHER -> "TypeError"

int(v) == IF v.t = "str" THEN ParseInt(v.s) ELSE v.n

RECURSIVE sum(_)
sum(bools) ==
  IF bools = <<>> THEN 0 ELSE (IF Head(bools) THEN 1 ELSE 0) + sum(Tail(bools))

-----------------------------------------------------------------------------
(* The regex engine on the pattern texts of the model *)

re_table ==
  {
    \* v(\d+\.\d+\.\d+)
    [text |-> <<"v", "(", "\\", "d", "+", "\\", ".", "\\", "d", "+", "\\", ".", "\\", "d", "+", ")">>,
     ok |-> TRUE, groups |-> 1,
     found |-> {"v1.0.0", "v1.2.3", "v10.15.22", "v2.0.0-beta.1", "release-v1.5.0"}],
    \* ^v(\d+\.\d+\.\d+)$
    [text |-> <<"^", "v", "(", "\\", "d", "+", "\\", ".", "\\", "d", "+", "\\", ".", "\\", "d", "+", ")", "$">>,
     ok |-> TRUE, groups |-> 1,
     found |-> {"v1.0.0", "v1.2.3", "v10.15.22"}],
    \* ^v(\d+\.\d+\.\d+)
    [text |-> <<"^", "v", "(", "\\", "d", "+", "\\", ".", "\\", "d", "+", "\\", ".", "\\", "d", "+", ")">>,
     ok |-> TRUE, groups |-> 1,
     found |-> {"v1.0.0", "v1.2.3", "v10.15.22", "v2.0.0-beta.1"}],
    \* ^v(\d\.\d\.\d)$
    [text |-> <<"^", "v", "(", "\\", "d", "\\", ".", "\\", "d", "\\", ".", "\\", "d", ")", "$">>,
     ok |-> TRUE, groups |-> 1,
     found |-> {"v1.0.0", "v1.2.3"}],
    \* ^v(1\.0\.0)$
    [text |-> <<"^", "v", "(", "1", "\\", ".", "0", "\\", ".", "0", ")", "$">>,
     ok |-> TRUE, groups |-> 1,
     found |-> {"v1.0.0"}],
    \* (\d+)\.(\d+)\.(\d+)
    [text |-> <<"(", "\\", "d", "+", ")", "\\", ".", "(", "\\", "d", "+", ")", "\\", ".", "(", "\\", "d", "+", ")">>,
     ok |-> TRUE, groups |-> 3,
     found |-> {"v1.0.0", "v1.2.3", "v10.15.22", "v2.0.0-beta.1", "release-v1.5.0"}],
    \* v(\d+)\.(\d+)
    [text |-> <<"v", "(", "\\", "d", "+", ")", "\\", ".", "(", "\\", "d", "+", ")">>,
     ok |-> TRUE, groups |-> 2,
     found |-> {"v1.0.0", "v1.2.3", "v10.15.22", "v2.0.0-beta.1", "release-v1.5.0"}],
    \* v\d+\.\d+\.\d+
    [text |-> <<"v", "\\", "d", "+", "\\", ".", "\\", "d", "+", "\\", ".", "\\", "d", "+">>,
     ok |-> TRUE, groups |-> 0,
     found |-> {"v1.0.0", "v1.2.3", "v10.15.22", "v2.0.0-beta.1", "release-v1.5.0"}],
    \* v?(\d+\.\d+\.\d+)
    [text |-> <<"v", "?", "(", "\\", "d", "+", "\\", ".", "\\", "d", "+", "\\", ".", "\\", "d", "+", ")">>,
     ok |-> TRUE, groups |-> 1,
     found |-> {"v1.0.0", "v1.2.3", "v10.15.22", "v2.0.0-beta.1", "release-v1.5.0"}],
    \* v(\d+\.\d+\.\d+
    [text |-> <<"v", "(", "\\", "d", "+", "\\", ".", "\\", "d", "+", "\\", ".", "\\", "d", "+">>,
     ok |-> FALSE, groups |-> 0,
     found |-> {}],
    \* ()
    [text |-> <<"(", ")">>,
     ok |-> TRUE, groups |-> 1,
     found |-> {"v1.0.0", "v1.2.3", "v10.15.22", "v2.0.0-beta.1", "release-v1.5.0", "invalid-tag", "app-release.apk", "app-debug.apk", "mobdeck-release.apk", "app-release.apk.sha256", "app-release-universal.apk", "something-app-release.apk"}],
    \* (zzz)
    [text |-> <<"(", "z", "z", "z", ")">>,
     ok |-> TRUE, groups |-> 1,
     found |-> {}],
    \* app-release\.apk$
    [text |-> <<"a", "p", "p", "-", "r", "e", "l", "e", "a", "s", "e", "\\", ".", "a", "p", "k", "$">>,
     ok |-> TRUE, groups |-> 0,
     found |-> {"app-release.apk", "something-app-release.apk"}],
    \* ^app-release\.apk$
    [text |-> <<"^", "a", "p", "p", "-", "r", "e", "l", "e", "a", "s", "e", "\\", ".", "a", "p", "k", "$">>,
     ok |-> TRUE, groups |-> 0,
     found |-> {"app-release.apk"}],
    \* app-release
    [text |-> <<"a", "p", "p", "-", "r", "e", "l", "e", "a", "s", "e">>,
     ok |-> TRUE, groups |-> 0,
     found |-> {"app-release.apk", "app-release.apk.sha256", "app-release-universal.apk", "something-app-release.apk"}],
    \* \.apk$
    [text |-> <<"\\", ".", "a", "p", "k", "$">>,
     ok |-> TRUE, groups |-> 0,
     found |-> {"app-release.apk", "app-debug.apk", "mobdeck-release.apk", "app-release-universal.apk", "something-app-release.apk"}],
    \* release\.apk$
    [text |-> <<"r", "e", "l", "e", "a", "s", "e", "\\", ".", "a", "p", "k", "$">>,
     ok |-> TRUE, groups |-> 0,
     found |-> {"app-release.apk", "mobdeck-release.apk", "something-app-release.apk"}],
    \* debug|mobdeck|sha256|universal
    [text |-> <<"d", "e", "b", "u", "g", "|", "m", "o", "b", "d", "e", "c", "k", "|", "s", "h", "a", "2", "5", "6", "|", "u", "n", "i", "v", "e", "r", "s", "a", "l">>,
     ok |-> TRUE, groups |-> 0,
     found |-> {"app-debug.apk", "mobdeck-release.apk", "app-release.apk.sha256", "app-release-universal.apk"}],
    \* app-release(
    [text |-> <<"a", "p", "p", "-", "r", "e", "l", "e", "a", "s", "e", "(">>,
     ok |-> FALSE, groups |-> 0,
     found |-> {}]
  }

re_entry(text) == CHOOSE r \in re_table : r.text = text

\* re.compile succeeds (otherwise re.search raises re.error)
re_compiles(text) == re_entry(text).ok

\* bool(re.search(text, subject))
re_search(text, subject) == subject \in re_entry(text).found

\* len(match.groups())
re_groups(text) == re_entry(text).groups

\* match.group(n) raises IndexError unless 0 <= n <= len(match.groups())
group_exists(text, n) == 0 <= n /\ n <= re_groups(text)

-----------------------------------------------------------------------------
(* String literals of the script *)

\* 'https://github.com/'
GitHubPrefix ==
  <<"h", "t", "t", "p", "s", ":", "/", "/", "g", "i", "t", "h", "u", "b", ".", "c", "o", "m", "/">>

\* 'app-release'
AppRelease == <<"a", "p", "p", "-", "r", "e", "l", "e", "a", "s", "e">>

\* 'v('
VParen == <<"v", "(">>

\* r'\d+\.\d+\.\d+'
SemVer == <<"\\", "d", "+", "\\", ".", "\\", "d", "+", "\\", ".", "\\", "d", "+">>

-----------------------------------------------------------------------------
(* What a check does: it returns a boolean or raises, and prints           *)
(* diagnostics (the missing fields, the cases it went through, its count   *)
(* of successes)                                                           *)

Return(b) == [ret |-> b, fault |-> "", missing |-> <<>>, iter |-> 0, succ |-> 0]

Raise(e) == [ret |-> FALSE, fault |-> e, missing |-> <<>>, iter |-> 0, succ |-> 0]

required_fields == <<"id", "url", "name", "description", "additionalSettings">>

IsMissingAbsentOnly(cfg, field) == ~In(field, cfg)

\* field not in cfg or not cfg[field]
IsMissing(cfg, field) == ~In(field, cfg) \/ ~Truthy(cfg[field])

validate_required_fields(cfg) ==
  IF cfg.t = "null" THEN Raise("TypeError")
  ELSE LET missing_fields == SelectSeq(required_fields, LAMBDA f : IsMissing(cfg, f))
       IN IF missing_fields # <<>>
          THEN [Return(FALSE) EXCEPT !.missing = missing_fields]
          ELSE Return(TRUE)

version_test_cases ==
  <<"v1.0.0", "v1.2.3", "v10.15.22", "v2.0.0-beta.1", "release-v1.5.0", "invalid-tag">>

VersionThreshold == 3

RECURSIVE version_loop(_, _, _, _)
\* the for loop of test_version_extraction from case k on; re.error is
\* caught per case, any other exception leaves the loop and the function
version_loop(pattern, match_group, k, success_count) ==
  IF k > Len(version_test_cases)
  THEN [Return(success_count >= VersionThreshold)
          EXCEPT !.iter = k - 1, !.succ = success_count]
  ELSE IF pattern.t # "str"
  THEN [Raise("TypeError") EXCEPT !.iter = k, !.succ = success_count]
  ELSE IF ~re_compiles(pattern.s)
  THEN version_loop(pattern, match_group, k + 1, success_count)
  ELSE IF re_search(pattern.s, version_test_cases[k])
          /\ re_groups(pattern.s) >= match_group
  THEN IF group_exists(pattern.s, match_group)
       THEN version_loop(pattern, match_group, k + 1, success_count + 1)
       ELSE [Raise("IndexError") EXCEPT !.iter = k, !.succ = success_count]
  ELSE version_loop(pattern, match_group, k + 1, success_count)

test_version_extraction(cfg) ==
  IF cfg.t # "map" THEN Raise("AttributeError")
  ELSE LET settings == Get(cfg, "additionalSettings", EmptyDict) IN
  IF settings.t # "map" THEN Raise("AttributeError")
  ELSE LET pattern == Get(settings, "versionExtractionRegEx", Str(<<>>))
           group_value == Get(settings, "matchGroupToUse", Str(<<"1">>)) IN
  IF int_error(group_value) # "" THEN Raise(int_error(group_value))
  ELSE IF ~Truthy(pattern) THEN Return(FALSE)
  ELSE version_loop(pattern, int(group_value), 1, 0)

apk_test_cases ==
  << <<"app-release.apk", TRUE>>,
     <<"app-debug.apk", FALSE>>,
     <<"mobdeck-release.apk", FALSE>>,
     <<"app-release.apk.sha256", FALSE>>,
     <<"app-release-universal.apk", FALSE>>,
     <<"something-app-release.apk", TRUE>> >>

apk_passes_strict(success_count) == success_count > Len(apk_test_cases) - 1

\* success_count >= len(test_cases) - 1
apk_passes(success_count) == success_count >= Len(apk_test_cases) - 1

RECURSIVE apk_loop(_, _, _)
\* the for loop of test_apk_filter from case k on
apk_loop(pattern, k, success_count) ==
  IF k > Len(apk_test_cases)
  THEN [Return(apk_passes(success_count))
          EXCEPT !.iter = k - 1, !.succ = success_count]
  ELSE IF pattern.t # "str"
  THEN [Raise("TypeError") EXCEPT !.iter = k, !.succ = success_count]
  ELSE IF ~re_compiles(pattern.s)
  THEN apk_loop(pattern, k + 1, success_count)
  ELSE IF re_search(pattern.s, apk_test_cases[k][1]) = apk_test_cases[k][2]
  THEN apk_loop(pattern, k + 1, success_count + 1)
  ELSE apk_loop(pattern, k + 1, success_count)

test_apk_filter(cfg) ==
  IF cfg.t # "map" THEN Raise("AttributeError")
  ELSE LET settings == Get(cfg, "additionalSettings", EmptyDict) IN
  IF settings.t # "map" THEN Raise("AttributeError")
  ELSE LET pattern == Get(settings, "apkFilterRegEx", Str(<<>>)) IN
  IF ~Truthy(pattern) THEN Return(FALSE)
  ELSE apk_loop(pattern, 1, 0)

validate_urls_prefix_only(cfg) ==
  IF cfg.t # "map" THEN Raise("AttributeError")
  ELSE LET url == Get(cfg, "url", Str(<<>>)) IN
  IF url.t # "str" THEN Raise("AttributeError")
  ELSE Return(StartsWith(url.s, GitHubPrefix))

validate_urls(cfg) ==
  IF cfg.t # "map" THEN Raise("AttributeError")
  ELSE LET url == Get(cfg, "url", Str(<<>>))
           source_url == Get(cfg, "sourceUrl", Str(<<>>)) IN
  IF url.t # "str" THEN Raise("AttributeError")
  ELSE IF ~StartsWith(url.s, GitHubPrefix) THEN Return(FALSE)
  ELSE IF Truthy(source_url) /\ source_url # url THEN Return(FALSE)
  ELSE Return(TRUE)

\* all(checks)
all(checks) == \A k \in 1..Len(checks) : checks[k]

prerelease_check_blocking(include_prereleases) == ~Truthy(include_prereleases)

\* what the prerelease branch appends to checks: True on both sides
prerelease_check(include_prereleases) ==
  IF ~Truthy(include_prereleases) THEN TRUE ELSE TRUE

check_github_compatibility(cfg) ==
  IF cfg.t # "map" THEN Raise("AttributeError")
  ELSE LET settings == Get(cfg, "additionalSettings", EmptyDict) IN
  IF settings.t # "map" THEN Raise("AttributeError")
  ELSE LET apk_filter == Get(settings, "apkFilterRegEx", Str(<<>>))
           version_regex == Get(settings, "versionExtractionRegEx", Str(<<>>))
           include_prereleases == Get(settings, "includePrereleases", Bool(TRUE)) IN
  IF apk_filter.t # "str" THEN Raise("TypeError")
  ELSE IF version_regex.t # "str" THEN Raise("TypeError")
  ELSE Return(all(<<Contains(AppRelease, apk_filter.s),
                    Contains(VParen, version_regex.s) /\ Contains(SemVer, version_regex.s),
                    prerelease_check(include_prereleases)>>))

-----------------------------------------------------------------------------
(* The configurations the runs are checked on *)

\* https://github.com/x/y
UrlGood ==
  <<"h", "t", "t", "p", "s", ":", "/", "/", "g", "i", "t", "h", "u", "b", ".", "c", "o", "m", "/", "x", "/", "y">>

\* https://github.com/x/z
UrlOther ==
  <<"h", "t", "t", "p", "s", ":", "/", "/", "g", "i", "t", "h", "u", "b", ".", "c", "o", "m", "/", "x", "/", "z">>

\* http://github.com/x/y
UrlHttp ==
  <<"h", "t", "t", "p", ":", "/", "/", "g", "i", "t", "h", "u", "b", ".", "c", "o", "m", "/", "x", "/", "y">>

\* https://github.com
UrlNoSlash ==
  <<"h", "t", "t", "p", "s", ":", "/", "/", "g", "i", "t", "h", "u", "b", ".", "c", "o", "m">>

\* v(\d+\.\d+\.\d+)
VersionPattern ==
  <<"v", "(", "\\", "d", "+", "\\", ".", "\\", "d", "+", "\\", ".", "\\", "d", "+", ")">>

\* app-release\.apk$
ApkPattern ==
  <<"a", "p", "p", "-", "r", "e", "l", "e", "a", "s", "e", "\\", ".", "a", "p", "k", "$">>

FieldValues == {Absent, Str(<<>>), Str(<<"x">>)}

UrlValues ==
  {Absent, Null, Num(5), Str(<<>>), Str(UrlGood), Str(GitHubPrefix), Str(UrlHttp),
   Str(UrlNoSlash)}

SourceUrlValues == {Absent, Null, Num(5), Str(<<>>), Str(UrlGood), Str(UrlOther)}

PatternValues == {Absent, Null, Num(5), Str(<<>>)} \cup {Str(r.text) : r \in re_table}

MatchGroupValues ==
  {Absent, Null, Bool(TRUE), Str(<<>>), Str(<<"2">>), Str(<<"-", "1">>), Str(<<"a">>)}
    \cup {Num(k) : k \in (0 - MaxMatchGroup)..MaxMatchGroup}

PrereleaseValues == {Absent, Bool(TRUE), Bool(FALSE)}

GoodSettings == Settings("map", Str(VersionPattern), Absent, Str(ApkPattern), Absent)

SettingsValues ==
  {AbsentSettings, EmptyDict, GoodSettings,
   Settings("null", Absent, Absent, Absent, Absent),
   Settings("list", Absent, Absent, Absent, Absent)}

\* every combination of the top-level fields
FieldDocs ==
  {Doc("map", id, url, name, description, sourceUrl, additionalSettings) :
     id \in FieldValues, url \in UrlValues, name \in FieldValues,
     description \in FieldValues, sourceUrl \in SourceUrlValues,
     additionalSettings \in SettingsValues}

GoodDoc(additionalSettings) ==
  Doc("map", Str(<<"x">>), Str(UrlGood), Str(<<"x">>), Str(<<"x">>), Absent,
      additionalSettings)

\* every version pattern with every matchGroupToUse
VersionDocs ==
  {GoodDoc(Settings("map", ver, grp, Str(ApkPattern), Absent)) :
     ver \in PatternValues, grp \in MatchGroupValues}

\* every pair of patterns with every includePrereleases
PatternDocs ==
  {GoodDoc(Settings("map", ver, Absent, apk, pre)) :
     ver \in PatternValues, apk \in PatternValues, pre \in PrereleaseValues}

\* what json.load can return: null, a list, a mapping
Docs ==
  {None, Doc("list", Absent, Absent, Absent, Absent, Absent, AbsentSettings)}
    \cup FieldDocs \cup VersionDocs \cup PatternDocs

\* obtainium.json: absent, not well-formed JSON, or the text of a document
Files ==
  {[exists |-> FALSE, wellformed |-> FALSE, doc |-> None],
   [exists |-> TRUE, wellformed |-> FALSE, doc |-> None]}
    \cup {[exists |-> TRUE, wellformed |-> TRUE, doc |-> d] : d \in Docs}

-----------------------------------------------------------------------------
(* main *)

tests_swapped ==
  <<"Required Fields", "URL Validation", "APK Filter", "Version Extraction",
    "GitHub Compatibility">>

tests ==
  <<"Required Fields", "URL Validation", "Version Extraction", "APK Filter",
    "GitHub Compatibility">>

\* test_func() for the test named
test_func(test_name, cfg) ==
  CASE test_name = "Required Fields" -> validate_required_fields(cfg)
    [] test_name = "URL Validation" -> validate_urls(cfg)
    [] test_name = "Version Extraction" -> test_version_extraction(cfg)
    [] test_name = "APK Filter" -> test_apk_filter(cfg)
    [] test_name = "GitHub Compatibility" -> check_github_compatibility(cfg)

load_config(f) ==
  IF ~f.exists THEN [config |-> None, printed |-> "obtainium.json not found"]
  ELSE IF ~f.wellformed THEN [config |-> None, printed |-> "JSON parsing error"]
  ELSE [config |-> f.doc, printed |-> "obtainium.json loaded successfully"]

aborts_never(cfg) == FALSE

\* if not config: sys.exit(1)
aborts(cfg) == ~Truthy(cfg)

exit_code_any(res) == IF sum(res) >= 1 THEN 0 ELSE 1

\* passed == total -> sys.exit(0), else sys.exit(1)
exit_code(res) == IF sum(res) = Len(res) THEN 0 ELSE 1

Init ==
  /\ file \in Files
  /\ config = None
  /\ pc = "start"
  /\ i = 1
  /\ results = <<>>
  /\ diag = <<>>
  /\ out = <<>>
  /\ exitStatus = -1

\* main, lines 202-204: load the configuration, leave with status 1 when
\* the value loaded is falsy
LoadConfig ==
  /\ pc = "start"
  /\ LET loaded == load_config(file) IN
       /\ config' = loaded.config
       /\ out' = Append(out, loaded.printed)
       /\ IF aborts(loaded.config)
          THEN pc' = "exit" /\ exitStatus' = 1
          ELSE pc' = "run" /\ exitStatus' = exitStatus
  /\ UNCHANGED <<file, i, results, diag>>

\* one iteration of the for loop over tests, with its try/except
RunTest ==
  /\ pc = "run"
  /\ i <= Len(tests)
  /\ LET o == test_func(tests[i], config) IN
       /\ out' = Append(out, tests[i])
       /\ diag' = Append(diag, o)
       /\ results' = Append(results, IF o.fault # "" THEN FALSE ELSE o.ret)
  /\ i' = i + 1
  /\ UNCHANGED <<file, config, pc, exitStatus>>

\* the summary and the exit status
Summary ==
  /\ pc = "run"
  /\ i > Len(tests)
  /\ out' = Append(out, IF exit_code(results) = 0 THEN "All tests passed" ELSE "tests failed")
  /\ exitStatus' = exit_code(results)
  /\ pc' = "exit"
  /\ UNCHANGED <<file, config, i, results, diag>>

Next == LoadConfig \/ RunTest \/ Summary

Spec == Init /\ [][Next]_vars

-----------------------------------------------------------------------------
(* Properties *)

\* the five checks, by the names main prints
CheckOrder ==
  <<"Required Fields", "URL Validation", "Version Extraction", "APK Filter",
    "GitHub Compatibility">>

\* the headers of the checks started so far, in the order printed
Started == SelectSeq(out, LAMBDA m : \E k \in 1..Len(CheckOrder) : CheckOrder[k] = m)

SummaryPrinted == \E k \in 1..Len(out) : out[k] \in {"All tests passed", "tests failed"}

\* the file was found and parsed
Loaded == file.exists /\ file.wellformed

\* the k-th check returned pass
Passed(k) == diag[k].fault = "" /\ diag[k].ret

\* the entry of additionalSettings a check reads: absent entries of an
\* absent additionalSettings included
Setting(cfg, key) ==
  IF cfg.additionalSettings.t = "map" THEN cfg.additionalSettings[key] ELSE Absent

\* the configuration is a mapping whose additionalSettings, when present,
\* is a mapping
HasSettings(cfg) ==
  cfg.t = "map" /\ cfg.additionalSettings.t \in {"map", "absent"}

\* C1: in a run that reached the Runner the exit status is 0 exactly when
\* each of the five checks returned pass, it is 1 when one returned fail or
\* raised, and the status is never anything but 0 or 1
C1_ExitStatus ==
  /\ pc = "exit" => exitStatus \in {0, 1}
  /\ pc # "exit" => exitStatus = -1
  /\ (pc = "exit" /\ Len(diag) > 0) =>
       /\ Len(diag) = 5
       /\ exitStatus = 0 <=> \A k \in 1..5 : Passed(k)
       /\ exitStatus = 1 <=> \E k \in 1..5 : diag[k].fault # "" \/ ~diag[k].ret

C1_Witness == pc = "exit" /\ exitStatus = 0 /\ \A k \in 1..5 : Passed(k)

\* C2: a file that exists and parses, whatever the value parsed (an empty
\* mapping included), is returned as the configuration and the five checks
\* are executed
C2_WellFormedProceeds ==
  (Loaded /\ pc = "exit") => (config = file.doc /\ Len(results) = 5)

\* C3: when the file is absent or does not parse, the run ends with status
\* 1, no check is ever started and no summary is printed
C3_LoadFailureAborts ==
  ~Loaded =>
    /\ pc \in {"start", "exit"}
    /\ pc = "exit" => exitStatus = 1
    /\ Started = <<>> /\ results = <<>> /\ diag = <<>>
    /\ ~SummaryPrinted

C3_Witness == ~Loaded /\ pc = "exit" /\ exitStatus = 1 /\ Len(out) = 1

\* C4: once the Runner is reached the five checks are executed once each in
\* the fixed order; a check that fails or raises is recorded as one failed
\* result and the next check still runs, so the summary comes after exactly
\* five results
C4_FiveChecksInOrder ==
  /\ Len(Started) = Len(results) /\ Len(diag) = Len(results)
  /\ Len(results) <= 5
  /\ Started = SubSeq(CheckOrder, 1, Len(results))
  /\ \A k \in 1..Len(results) :
       /\ diag[k] = test_func(CheckOrder[k], config)
       /\ results[k] = Passed(k)
  /\ (pc = "run" /\ Len(results) < 5) => i = Len(results) + 1
  /\ (pc = "exit" /\ Len(results) > 0) => Len(results) = 5
  /\ SummaryPrinted => Len(results) = 5

C4_Witness ==
  /\ pc = "exit" /\ SummaryPrinted /\ Len(results) = 5
  /\ diag[3].fault = "ValueError" /\ ~results[3]
  /\ results[4]

\* number of tags on which the search matches with at least match_group groups
VersionSuccesses(text, match_group) ==
  Cardinality({k \in 1..Len(version_test_cases) :
                 /\ re_compiles(text)
                 /\ re_search(text, version_test_cases[k])
                 /\ re_groups(text) >= match_group})

\* C5: for a non-empty pattern and an integer matchGroupToUse (1 when
\* absent) the version check goes through all six tags and passes exactly
\* when at least 3 of them match with at least matchGroupToUse groups; with
\* an empty pattern it fails without iterating
C5_VersionVerdict ==
  (/\ Len(diag) >= 3
   /\ HasSettings(config)
   /\ Setting(config, "versionExtractionRegEx").t \in {"str", "absent"}
   /\ Setting(config, "matchGroupToUse").t \in {"int", "absent"}) =>
     LET pattern == Setting(config, "versionExtractionRegEx")
         group_value == Setting(config, "matchGroupToUse")
         match_group == IF group_value.t = "absent" THEN 1 ELSE group_value.n
     IN IF pattern.s = <<>>
        THEN diag[3].fault = "" /\ ~diag[3].ret /\ diag[3].iter = 0
        ELSE /\ diag[3].fault = ""
             /\ diag[3].iter = Len(version_test_cases)
             /\ diag[3].ret <=> VersionSuccesses(pattern.s, match_group) >= 3

\* number of filenames on which the outcome of the search is the expected one
ApkSuccesses(text) ==
  Cardinality({k \in 1..Len(apk_test_cases) :
                 /\ re_compiles(text)
                 /\ re_search(text, apk_test_cases[k][1]) = apk_test_cases[k][2]})

\* C6: for a non-empty filter pattern the APK check goes through all six
\* cases, a pattern that does not compile failing each of them, and passes
\* exactly when at least 5 cases have the expected outcome; with an empty
\* pattern it fails at once
C6_ApkVerdict ==
  (/\ Len(diag) >= 4
   /\ HasSettings(config)
   /\ Setting(config, "apkFilterRegEx").t \in {"str", "absent"}) =>
     LET pattern == Setting(config, "apkFilterRegEx")
     IN IF pattern.s = <<>>
        THEN diag[4].fault = "" /\ ~diag[4].ret /\ diag[4].iter = 0
        ELSE /\ diag[4].fault = ""
             /\ diag[4].iter = 6
             /\ diag[4].succ = ApkSuccesses(pattern.s)
             /\ ~re_compiles(pattern.s) => diag[4].succ = 0
             /\ diag[4].ret <=> ApkSuccesses(pattern.s) >= 5

C6_Witness ==
  /\ Len(diag) >= 4 /\ Passed(4) /\ diag[4].succ = 5
  /\ Setting(config, "apkFilterRegEx").t = "str"

\* C7: the URL check passes exactly when url starts with
\* https://github.com/ and sourceUrl is absent, empty (falsy) or equal to url
C7_UrlVerdict ==
  (Len(diag) >= 2 /\ config.t = "map") =>
     LET url == config.url
         source_url == config.sourceUrl
         prefixed == url.t = "str" /\ StartsWith(url.s, GitHubPrefix)
     IN /\ Passed(2) <=>
             (prefixed /\ (source_url.t = "absent" \/ ~Truthy(source_url) \/ source_url = url))
        /\ ~prefixed => ~results[2]
        /\ (Truthy(source_url) /\ source_url # url) => ~results[2]

C7_Witness ==
  /\ Len(diag) >= 2 /\ diag[2].fault = "" /\ ~diag[2].ret
  /\ config.url = Str(UrlGood) /\ config.sourceUrl = Str(UrlOther)

\* position of a field in the list of required fields
FieldIndex(field) == CHOOSE k \in 1..Len(required_fields) : required_fields[k] = field

\* C8: the required-fields check passes exactly when each of the five
\* fields is present and truthy; when it fails the list it reports holds
\* the absent or falsy fields, all of them, no other, in the order of the
\* list of required fields
C8_RequiredVerdict ==
  (Len(diag) >= 1 /\ config.t = "map") =>
     LET bad == {f \in {"id", "url", "name", "description", "additionalSettings"} :
                   config[f].t = "absent" \/ ~Truthy(config[f])}
         missing == diag[1].missing
     IN /\ diag[1].fault = ""
        /\ diag[1].ret <=> bad = {}
        /\ {missing[k] : k \in 1..Len(missing)} = bad
        /\ \A a, b \in 1..Len(missing) :
             a < b => FieldIndex(missing[a]) < FieldIndex(missing[b])

C8_Witness ==
  /\ Len(diag) >= 1 /\ ~diag[1].ret
  /\ diag[1].missing = <<"name", "description">>
  /\ config.name = Str(<<>>) /\ config.description = Absent

\* C9: the compatibility check passes exactly when apkFilterRegEx contains
\* app-release and versionExtractionRegEx contains v( and \d+\.\d+\.\d+;
\* no value of includePrereleases changes the result
C9_CompatVerdict ==
  (Len(diag) >= 5 /\ HasSettings(config)) =>
     LET apk_filter == Setting(config, "apkFilterRegEx")
         version_regex == Setting(config, "versionExtractionRegEx")
         with(pre) ==
           [config EXCEPT !.additionalSettings =
              Settings("map", version_regex, Setting(config, "matchGroupToUse"),
                       apk_filter, pre)]
     IN /\ Passed(5) <=>
             /\ apk_filter.t = "str" /\ Contains(AppRelease, apk_filter.s)
             /\ version_regex.t = "str" /\ Contains(VParen, version_regex.s)
             /\ Contains(SemVer, version_regex.s)
        /\ \A pre \in PrereleaseValues \cup {Null, Num(0), Num(1)} :
             LET o == check_github_compatibility(with(pre))
             IN (o.fault = "" /\ o.ret) = Passed(5)

C9_Witness ==
  /\ Len(diag) >= 5 /\ Passed(5)
  /\ Setting(config, "includePrereleases") = Bool(TRUE)

\* C10: a configuration with the other required fields present, a
\* well-prefixed url and no additionalSettings: the required-fields check
\* fails reporting additionalSettings, the version and APK checks fail on
\* their empty pattern, all five checks run and the exit status is 1
C10_MissingSettingsScenario ==
  (/\ pc = "exit" /\ Loaded /\ config.t = "map"
   /\ config.additionalSettings.t = "absent"
   /\ \A f \in {"id", "url", "name", "description"} : Truthy(config[f])
   /\ config.url.t = "str" /\ StartsWith(config.url.s, GitHubPrefix)) =>
     /\ Len(results) = 5 /\ Started = CheckOrder
     /\ diag[1].fault = "" /\ ~diag[1].ret
     /\ diag[1].missing = <<"additionalSettings">>
     /\ diag[3].fault = "" /\ ~diag[3].ret /\ diag[3].iter = 0
     /\ diag[4].fault = "" /\ ~diag[4].ret /\ diag[4].iter = 0
     /\ exitStatus = 1

C10_Witness ==
  /\ pc = "exit" /\ exitStatus = 1 /\ Len(results) = 5
  /\ config = GoodDoc(AbsentSettings)
  /\ results = <<FALSE, TRUE, FALSE, FALSE, FALSE>>

=============================================================================
